---- MODULE Spec2Model ----
(***************************************************************************)
(* The request-orchestration layer of backend/server.js: the multer upload *)
(* middleware as configured there, the /analyze-image and /batch-analyze   *)
(* handlers, callGemma3Vision with its liveness and model checks, the      *)
(* preprocessing fallback, the generate call, and the temp-file cleanup.   *)
(* The upload directory is a set of paths, the Ollama backend a record the *)
(* environment changes at will, and every await of the code is a step.     *)
(***************************************************************************)
EXTENDS Integers, Sequences, FiniteSets, TLC

\* ------------------------------------------------------------ bounds
\* Requests that can be in flight at once.
MaxReqs == 2
\* File parts one multipart request carries.
MaxParts == 2
\* Staged uploads over one behaviour (each takes a fresh uuid).
MaxIds == 2
\* Faults of the file system over one behaviour: an unlink or a read of an
\* existing file that fails.
MaxFsFaults == 1
\* Analyses the user starts in the UI over one behaviour.
MaxAnalyses == 7

\* --------------------------------------------------- configuration
MAX_FILE_SIZE == 16 * 1024 * 1024
MiB == 1024 * 1024
GEMMA_MODEL == "gemma3:4b"
ALLOWED_EXTENSIONS == {".png", ".jpg", ".jpeg", ".gif", ".webp"}
DefaultPrompt == "Analyze this image and provide a detailed summary"

\* ------------------------------------------------------ JS helpers
\* A JS value that is undefined / absent.
Undefined == "undefined"
\* JS truthiness of a string-or-undefined value (x || y, if (x)).
Truthy(v) == v \notin {Undefined, ""}

\* String.prototype.toLowerCase on the extensions the inputs use.
toLowerCase(s) ==
    CASE s = ".PNG" -> ".png"
      [] s = ".JPG" -> ".jpg"
      [] OTHER -> s

\* Original filenames are kept as stem and extension: path.extname(name) is
\* the part from the last dot on.
extname(name) == name.ext

\* Model names as the characters they are made of, for includes and split.
Chars(name) ==
    CASE name = "gemma3:4b" -> <<"g", "e", "m", "m", "a", "3", ":", "4", "b">>
      [] name = "llava:7b" -> <<"l", "l", "a", "v", "a", ":", "7", "b">>
      [] OTHER -> <<>>

\* s.split(':')[0]: the characters before the first colon.
RECURSIVE BeforeColon(_)
BeforeColon(cs) ==
    IF cs = <<>> \/ Head(cs) = ":" THEN <<>>
    ELSE <<Head(cs)>> \o BeforeColon(Tail(cs))

\* String.prototype.includes on character sequences.
includes(cs, sub) ==
    \E k \in 0..(Len(cs) - Len(sub)) : SubSeq(cs, k + 1, k + Len(sub)) = sub

\* ----------------------------------------------------------- paths
\* A path in UPLOAD_DIR: the uuid, the extension of the original name, and
\* whether it carries the suffix "_optimized.jpg".
NoPath == [id |-> 0, ext |-> "", opt |-> FALSE]
\* A file name without the uuid: the extension of the original name alone.
StagedPath_ByName(id, originalname) == [id |-> 1, ext |-> extname(originalname), opt |-> FALSE]
StagedPath(id, originalname) == [id |-> id, ext |-> extname(originalname), opt |-> FALSE]
OptimizedPathOf(imagePath) == [imagePath EXCEPT !.opt = TRUE]

\* buffer.toString('base64') of the bytes of the file at a path.
Base64(p) == [b64of |-> p]
NoImage == Base64(NoPath)

\* ---------------------------------------------------------- errors
\* A message is the sequence of the pieces a template literal joins.
NoError == [code |-> Undefined, message |-> <<>>, multer |-> FALSE]
MkError(msg) == [code |-> Undefined, message |-> msg, multer |-> FALSE]
MulterError(code, msg) == [code |-> code, message |-> msg, multer |-> TRUE]

NotRunningMsg == <<"Ollama server is not running. Please start Ollama with: ollama serve">>
ModelNotFoundMsg == <<"Model ", GEMMA_MODEL, " not found. Please install with: ollama pull ", GEMMA_MODEL>>
InvalidResponseMsg == <<"Invalid response from Ollama">>
CannotConnectMsg == <<"Cannot connect to Ollama. Make sure Ollama is running on port 11434">>
TimedOutMsg == <<"Analysis timed out. Try with a smaller image or simpler prompt">>
ENOENTMsg == <<"ENOENT: no such file or directory">>
EIOMsg == <<"EIO: i/o error, read">>

\* What axios.post can reject with: connection refused, a socket-level
\* timeout, axios's own timeout of 120000 ms, an HTTP error status.
AxiosRefused == [code |-> "ECONNREFUSED", message |-> <<"connect ECONNREFUSED 127.0.0.1:11434">>, multer |-> FALSE]
AxiosSocketTimeout == [code |-> "ETIMEDOUT", message |-> <<"connect ETIMEDOUT">>, multer |-> FALSE]
AxiosTimeout == [code |-> "ECONNABORTED", message |-> <<"timeout of 120000ms exceeded">>, multer |-> FALSE]
AxiosBadStatus == [code |-> "ERR_BAD_RESPONSE", message |-> <<"Request failed with status code 500">>, multer |-> FALSE]

\* What POST /api/generate can answer with a 2xx status: a text, an empty
\* text, a body without the field, no body.
NoReply == [data |-> FALSE, response |-> Undefined]
Replies ==
    { [data |-> TRUE, response |-> "A handwritten note"],
      [data |-> TRUE, response |-> ""],
      [data |-> TRUE, response |-> Undefined],
      NoReply }

\* ---------------------------------------------------------- inputs
FileNames ==
    { [stem |-> "a", ext |-> ".png"],
      [stem |-> "b", ext |-> ".JPG"],
      [stem |-> "c", ext |-> ".pdf"] }
Sizes == {2 * MiB, 20 * MiB}
Parts == [originalname : FileNames, size : Sizes]
NoPart == [originalname |-> [stem |-> "", ext |-> ""], size |-> 0]
Prompts == {Undefined, "", " ", "Read the text"}
Routes == {"single", "batch"}
\* GET /health and GET /status.
GetRoutes == {"health", "status"}

\* What the backend can be: not reachable (it then serves no list), or
\* reachable with one of these model lists.
ModelLists == { {"llava:7b"}, {"llava:7b", "gemma3:4b"} }
Backends == {[up |-> FALSE, models |-> {}]} \cup [up : {TRUE}, models : ModelLists]

\* ----------------------------------------------------------- state
VARIABLES
    fs,        \* the paths that exist in UPLOAD_DIR
    backend,   \* the Ollama server: [up, models]
    nextId,    \* the uuids handed out so far, plus one
    load,      \* how many requests the clients keep in flight at once
    faults,    \* the file-system faults so far
    req,       \* per request slot: the handler's position, locals and history
    sd,        \* the SIGINT handler: its position and the listing it works through
    ui         \* the ImageAnalyzer component's state

vars == <<fs, backend, nextId, load, faults, req, sd, ui>>

\* The request slots: one per request the clients keep in flight.
Reqs == 1..load

\* The SIGINT handler before the signal: nothing listed.
NotSignalled == [pc |-> "running", files |-> {}]

\* JS null.
Null == "null"

\* The ImageAnalyzer component as mounted: the useState initial values, and
\* the clock Date.now() reads.
UiInit ==
    [ selectedFile |-> Null,
      loading |-> FALSE,
      result |-> Null,
      error |-> Null,
      apiStatus |-> "unknown",
      history |-> <<>>,
      now |-> 0 ]

NoResp == [status |-> 0, body |-> [error |-> <<>>]]

\* The history of the item in work: what the liveness and model checks
\* returned, how preprocessing went, the generate calls issued, the image and
\* the prompt of the last one's payload and how that POST ended ("pending",
\* "replied", "malformed" for a reply without a text, or the code of the
\* error it rejected with), how callGemma3Vision
\* ended and the message it rejected with. "-" is a stage not reached.
FreshItem ==
    [live |-> "-", avail |-> "-", optimized |-> "-", gen |-> 0, sent |-> NoImage,
     prompt |-> Undefined, post |-> "-", outcome |-> "-", message |-> <<>>]

IdleReq ==
    [ pc |-> "idle",
      route |-> "none",
      part |-> NoPart,            \* the file part multer is streaming
      partPath |-> NoPath,
      seen |-> 0,                 \* file parts received so far
      files |-> <<>>,             \* multer's uploadedFiles, req.file(s) on success
      uploadError |-> NoError,
      bodyPrompt |-> Undefined,   \* req.body.prompt
      prompt |-> Undefined,       \* the handler's prompt
      i |-> 0,                    \* the item in work (1 for /analyze-image)
      j |-> 0,                    \* the file the outer catch block is at
      finalImagePath |-> NoPath,
      imageBase64 |-> NoImage,
      reply |-> NoReply,
      results |-> <<>>,
      ollamaHealthy |-> FALSE,    \* /health and /status
      modelAvailable |-> FALSE,   \* /health
      resp |-> NoResp,            \* the HTTP response sent
      \* history
      item |-> FreshItem,         \* the item in work, see FreshItem
      rel |-> <<>>,               \* per file, the cleanupFile calls on its path
      atResp |-> {},              \* the request's temp files when it answered
      nresp |-> 0,                \* the responses sent
      upSeen |-> FALSE,           \* a GET of /health or /status found the backend up
      issued |-> 0,               \* the generate calls issued
      ended |-> 0,                \* the generate calls that replied or rejected
      delFail |-> FALSE,          \* an unlink of an existing file failed
      sendThrew |-> FALSE ]       \* a res.json of the handler threw

TypeOK ==
    /\ backend \in Backends
    /\ nextId \in 1..(MaxIds + 1)
    /\ load \in 1..MaxReqs
    /\ DOMAIN req = Reqs
    /\ faults \in 0..MaxFsFaults
    /\ \A r \in Reqs : req[r].pc \in
         {"idle", "upload", "streaming", "abort", "error", "handler", "health",
          "model", "optimize", "read", "inflight", "rmopt", "finally",
          "outerCleanup", "done", "getLive", "getModel", "getTags", "killed"}
    /\ sd.pc \in {"running", "readdir", "cleaning", "exited"}
    /\ ui.now \in 0..MaxAnalyses

Init ==
    /\ fs = {}
    /\ backend \in Backends
    /\ nextId = 1
    /\ load = 1
    /\ faults = 0
    /\ req = [r \in Reqs |-> IdleReq]
    /\ sd = NotSignalled
    /\ ui = UiInit

Put(r, rec) == req' = [req EXCEPT ![r] = rec]

\* The temp files of request r: the staged path of each of its files and the
\* derived copy of each.
TempFiles(r) ==
    { req[r].files[k].path : k \in 1..Len(req[r].files) }
      \cup { OptimizedPathOf(req[r].files[k].path) : k \in 1..Len(req[r].files) }
      \cup (IF req[r].partPath = NoPath THEN {} ELSE {req[r].partPath})

\* fs.unlink(p): removes p; fails and changes nothing when p does not exist,
\* and may fail (EPERM, EBUSY) when it does.
UnlinkOutcomes(p) ==
    IF p \in fs
    THEN {fs \ {p}} \cup (IF faults < MaxFsFaults THEN {fs} ELSE {})
    ELSE {fs}

\* The faults counted after an unlink of p left the directory as `after`.
FaultsAfterUnlink(p, after) == IF p \in fs /\ after = fs THEN faults + 1 ELSE faults

\* ------------------------------------------------ the environment
\* A request that has a GET or a POST to the backend pending.
AwaitsBackend(r) ==
    req[r].pc \in {"health", "model", "inflight", "getLive", "getModel", "getTags"}

\* The backend stops, starts, loads or unloads a model. The server sees the
\* backend only in the answers to its GETs and POSTs, so the changes since the
\* last answer are taken as one change while the next answer is pending, or
\* while the server has no request at all.
BackendChange ==
    /\ \/ \E r \in Reqs : AwaitsBackend(r)
       \/ \A r \in Reqs : req[r].pc = "idle"
    /\ \E b \in Backends \ {backend} : backend' = b
    /\ UNCHANGED <<fs, nextId, load, sd, ui, faults, req>>

\* A client sends POST /analyze-image or POST /batch-analyze, GET /health or
\* GET /status.
Receive(r) ==
    /\ req[r].pc = "idle"
    /\ \A q \in Reqs : q < r => req[q].pc # "idle"
    /\ Cardinality({q \in Reqs : req[q].pc # "idle"}) < load
    /\ \/ \E route \in Routes : Put(r, [IdleReq EXCEPT !.pc = "upload", !.route = route])
       \/ \E route \in GetRoutes : Put(r, [IdleReq EXCEPT !.pc = "getLive", !.route = route])
    /\ UNCHANGED <<fs, backend, nextId, load, sd, ui, faults>>

\* ------------------------------------------------ upload (multer)
\* upload.single('image') takes one file, upload.array('images', 10) ten.
maxCount(route) == IF route = "single" THEN 1 ELSE 10

\* The fileFilter of upload: the lower-cased extension is an allowed one.
fileFilter(originalname) == toLowerCase(extname(originalname)) \in ALLOWED_EXTENSIONS

FileTypeError == MkError(<<"File type not allowed. Use: ", ".png, .jpg, .jpeg, .gif, .webp">>)
UnexpectedFile == MulterError("LIMIT_UNEXPECTED_FILE", <<"Unexpected field">>)
FileTooLarge == MulterError("LIMIT_FILE_SIZE", <<"File too large">>)

\* The next file part of the multipart body reaches multer: a file over the
\* field's count or refused by the fileFilter aborts the upload; any other is
\* opened under a fresh uuid in UPLOAD_DIR (diskStorage) and streamed to it.
PartArrives(r) ==
    /\ req[r].pc = "upload"
    /\ req[r].seen < MaxParts
    /\ \E part \in Parts :
         LET q == [req[r] EXCEPT !.part = part, !.seen = @ + 1] IN
         IF req[r].seen >= maxCount(req[r].route)
         THEN /\ Put(r, [q EXCEPT !.pc = "abort", !.uploadError = UnexpectedFile])
              /\ UNCHANGED <<fs, nextId>>
         ELSE IF ~fileFilter(part.originalname)
         THEN /\ Put(r, [q EXCEPT !.pc = "abort", !.uploadError = FileTypeError])
              /\ UNCHANGED <<fs, nextId>>
         ELSE /\ nextId <= MaxIds
              /\ fs' = fs \cup {StagedPath(nextId, part.originalname)}
              /\ nextId' = nextId + 1
              /\ Put(r, [q EXCEPT !.pc = "streaming",
                                   !.partPath = StagedPath(nextId, part.originalname)])
    /\ UNCHANGED <<backend, load, sd, ui, faults>>

\* The part's stream ends. A file over limits.fileSize was cut at the limit:
\* multer aborts with LIMIT_FILE_SIZE and counts the cut file among the
\* uploaded ones it then removes. Any other file joins req.file(s).
StreamEnds(r) ==
    /\ req[r].pc = "streaming"
    /\ LET q == req[r] IN
       IF q.part.size > MAX_FILE_SIZE
       THEN Put(r, [q EXCEPT !.pc = "abort", !.uploadError = FileTooLarge,
                             !.files = Append(@, [originalname |-> q.part.originalname,
                                                  path |-> q.partPath,
                                                  size |-> MAX_FILE_SIZE])])
       ELSE Put(r, [q EXCEPT !.pc = "upload", !.partPath = NoPath, !.part = NoPart,
                             !.files = Append(@, [originalname |-> q.part.originalname,
                                                  path |-> q.partPath,
                                                  size |-> q.part.size])])
    /\ UNCHANGED <<fs, backend, nextId, load, sd, ui, faults>>

\* The multipart body ends: multer calls next() and the route's handler runs.
EndOfParts(r) ==
    /\ req[r].pc = "upload"
    /\ Put(r, [req[r] EXCEPT !.pc = "handler"])
    /\ UNCHANGED <<fs, backend, nextId, load, sd, ui, faults>>

\* An aborted upload whose error is dropped: the files are removed and the
\* route's handler runs all the same.
UploadAbort_RunsHandler(r) ==
    /\ req[r].pc = "abort"
    /\ LET uploaded == { req[r].files[k].path : k \in 1..Len(req[r].files) } IN
       /\ faults' = faults
       /\ fs' = fs \ uploaded
       /\ Put(r, [req[r] EXCEPT !.pc = "handler"])
    /\ UNCHANGED <<backend, nextId, load, sd, ui>>

\* An aborted upload: multer unlinks every file it wrote for the request (a
\* failed unlink is kept in storageErrors and goes no further), then passes
\* the error on to the error-handling middleware.
UploadAbort(r) ==
    /\ req[r].pc = "abort"
    /\ LET uploaded == { req[r].files[k].path : k \in 1..Len(req[r].files) } IN
       \E gone \in SUBSET (uploaded \cap fs) :
         /\ faults + Cardinality((uploaded \cap fs) \ gone) <= MaxFsFaults
         /\ faults' = faults + Cardinality((uploaded \cap fs) \ gone)
         /\ fs' = fs \ gone
         /\ Put(r, [req[r] EXCEPT !.pc = "error",
                                  !.delFail = @ \/ (gone # uploaded \cap fs)])
    /\ UNCHANGED <<backend, nextId, load, sd, ui>>

\* The body the error-handling middleware answers with (NODE_ENV is not
\* 'development').
errorResponse(error) ==
    IF error.multer
    THEN IF error.code = "LIMIT_FILE_SIZE"
         THEN [status |-> 400, body |-> [error |-> <<"File too large. Maximum size is ", "16", "MB">>]]
         ELSE [status |-> 400, body |-> [error |-> <<"Upload error: ">> \o error.message]]
    ELSE [status |-> 500, body |-> [error |-> <<"Internal server error">>,
                                    message |-> <<"Something went wrong">>]]

errorMiddleware(r) ==
    /\ req[r].pc = "error"
    /\ Put(r, [req[r] EXCEPT !.pc = "done",
                             !.resp = errorResponse(req[r].uploadError),
                             !.nresp = @ + 1,
                             !.atResp = TempFiles(r) \cap fs])
    /\ UNCHANGED <<fs, backend, nextId, load, sd, ui, faults>>

\* ------------------------------------------------ handler entries
\* req.body.prompt || default, for the prompt field the request carries.
effectivePrompt(bodyPrompt) == IF Truthy(bodyPrompt) THEN bodyPrompt ELSE DefaultPrompt

NoFileResponse(route) ==
    [status |-> 400,
     body |-> [error |-> IF route = "single" THEN <<"No image file provided">>
                         ELSE <<"No image files provided">>]]

\* The handler starts: without a file it answers 400 and is done (filePath
\* is null, the finally block releases nothing); with files it takes the
\* prompt and calls callGemma3Vision on the first of them.
HandlerEntry(r) ==
    /\ req[r].pc = "handler"
    /\ IF Len(req[r].files) = 0
       THEN Put(r, [req[r] EXCEPT !.pc = "done", !.resp = NoFileResponse(req[r].route),
                                  !.nresp = @ + 1])
       ELSE \E bodyPrompt \in Prompts :
              Put(r, [req[r] EXCEPT !.pc = "health",
                                    !.bodyPrompt = bodyPrompt,
                                    !.prompt = effectivePrompt(bodyPrompt),
                                    !.i = 1,
                                    !.rel = [k \in 1..Len(req[r].files) |-> 0]])
    /\ UNCHANGED <<fs, backend, nextId, load, sd, ui, faults>>

\* ----------------------------------------- the handlers' try/catch
\* res.json(body) throws when the body cannot be serialised; only a body
\* that carries a text of the backend (a summary) can fail so.
SendErrorMsg == <<"Invalid string length">>

Resp500(message) == [status |-> 500, body |-> [error |-> message]]

SingleSuccess(file, summary) ==
    [status |-> 200,
     body |-> [success |-> TRUE, summary |-> summary, filename |-> file.originalname,
               fileSize |-> file.size, model |-> GEMMA_MODEL]]

\* results.push of the batch loop's try and catch blocks.
pushSuccess(results, file, summary) ==
    Append(results, [success |-> TRUE, filename |-> file.originalname,
                     summary |-> summary, fileSize |-> file.size])

pushFailure(results, file, message) ==
    Append(results, [success |-> FALSE, filename |-> file.originalname, error |-> message])

\* The rejection of callGemma3Vision with no catch block in /analyze-image:
\* the error leaves the handler and nothing is answered.
Rejected_Uncaught(r, q, message) ==
    LET q1 == [q EXCEPT !.item.outcome = "rejected", !.item.message = message,
                        !.finalImagePath = NoPath, !.imageBase64 = NoImage,
                        !.reply = NoReply] IN
    IF q.route = "single"
    THEN [q1 EXCEPT !.pc = "finally"]
    ELSE [q1 EXCEPT !.pc = "finally",
                    !.results = pushFailure(@, q.files[q.i], message)]

\* callGemma3Vision rejected with `message`, in request record q (its locals
\* are gone with the call): the catch block of /analyze-image answers 500,
\* the one of the batch loop records a failed outcome; both go on to their
\* finally block.
Rejected(r, q, message) ==
    LET q1 == [q EXCEPT !.item.outcome = "rejected", !.item.message = message,
                        !.finalImagePath = NoPath, !.imageBase64 = NoImage,
                        !.reply = NoReply] IN
    IF q.route = "single"
    THEN [q1 EXCEPT !.pc = "finally", !.resp = Resp500(message), !.nresp = @ + 1,
                    !.atResp = TempFiles(r) \cap fs]
    ELSE [q1 EXCEPT !.pc = "finally",
                    !.results = pushFailure(@, q.files[q.i], message)]

\* callGemma3Vision returned `summary`: /analyze-image answers 200, or its
\* res.json throws and the catch block answers 500; the batch loop records a
\* successful outcome.
Resolved(r, q, summary) ==
    LET q1 == [q EXCEPT !.item.outcome = "resolved",
                        !.finalImagePath = NoPath, !.imageBase64 = NoImage,
                        !.reply = NoReply] IN
    IF q.route = "single"
    THEN { [q1 EXCEPT !.pc = "finally", !.resp = SingleSuccess(q.files[1], summary),
                      !.nresp = @ + 1, !.atResp = TempFiles(r) \cap fs],
           [q1 EXCEPT !.pc = "finally", !.resp = Resp500(SendErrorMsg),
                      !.nresp = @ + 1, !.atResp = TempFiles(r) \cap fs,
                      !.sendThrew = TRUE] }
    ELSE { [q1 EXCEPT !.pc = "finally",
                      !.results = pushSuccess(@, q.files[q.i], summary)] }

\* ------------------------------------------------ callGemma3Vision
\* The catch block without its cases: every error is wrapped alike.
catchMessage_Generic(error) == <<"Gemma3 analysis failed: ">> \o error.message

\* The message callGemma3Vision's catch block rethrows for an error.
catchMessage(error) ==
    IF error.code = "ECONNREFUSED" THEN CannotConnectMsg
    ELSE IF error.code = "ETIMEDOUT" THEN TimedOutMsg
    ELSE <<"Gemma3 analysis failed: ">> \o error.message

\* GET /api/tags answered 200 within 5 s.
checkOllamaHealth(b) == b.up

\* GET /api/tags lists a model whose name includes the base name.
checkModelAvailability(b, modelName) ==
    /\ b.up
    /\ \E name \in b.models : includes(Chars(name), BeforeColon(Chars(modelName)))

\* optimizeImage without its fallback: the output path whatever happened.
optimizeImage_NoFallback(ok, inputPath, outputPath) == outputPath

\* What optimizeImage returns: the output path, or the input on a failure.
optimizeImage(ok, inputPath, outputPath) == IF ok THEN outputPath ELSE inputPath

\* The reply taken as valid whenever it has a body, whatever its text.
validReply_AcceptsEmpty(reply) == reply.data

\* response.data && response.data.response
validReply(reply) == reply.data /\ Truthy(reply.response)

SetItem(q, field, v) == [q EXCEPT !.item = [@ EXCEPT ![field] = v]]

\* The liveness check with its result ignored: the call goes on when the
\* backend is down.
checkHealthStep_Ignored(r) ==
    /\ req[r].pc = "health"
    /\ Put(r, [SetItem(req[r], "live", IF checkOllamaHealth(backend) THEN "up" ELSE "down")
                 EXCEPT !.pc = "model"])
    /\ UNCHANGED <<fs, backend, nextId, load, sd, ui, faults>>

\* The liveness check made for the first item only and its result kept for
\* the items after it.
checkHealthStep_Cached(r) ==
    /\ req[r].pc = "health"
    /\ IF req[r].i > 1 \/ checkOllamaHealth(backend)
       THEN Put(r, [SetItem(req[r], "live", "up") EXCEPT !.pc = "model"])
       ELSE Put(r, Rejected(r, SetItem(req[r], "live", "down"),
                            catchMessage(MkError(NotRunningMsg))))
    /\ UNCHANGED <<fs, backend, nextId, load, sd, ui, faults>>

checkHealthStep(r) ==
    /\ req[r].pc = "health"
    /\ IF checkOllamaHealth(backend)
       THEN Put(r, [SetItem(req[r], "live", "up") EXCEPT !.pc = "model"])
       ELSE Put(r, Rejected(r, SetItem(req[r], "live", "down"),
                            catchMessage(MkError(NotRunningMsg))))
    /\ UNCHANGED <<fs, backend, nextId, load, sd, ui, faults>>

\* The model check with its result ignored: the call goes on without the
\* model.
checkModelStep_Ignored(r) ==
    /\ req[r].pc = "model"
    /\ Put(r, [SetItem(req[r], "avail",
                       IF checkModelAvailability(backend, GEMMA_MODEL) THEN "yes" ELSE "no")
                 EXCEPT !.pc = "optimize"])
    /\ UNCHANGED <<fs, backend, nextId, load, sd, ui, faults>>

\* Preprocessing started before the model check is looked at: the derived
\* copy is written, then a missing model ends the call.
checkModelStep_Late(r) ==
    /\ req[r].pc = "model"
    /\ LET imagePath == req[r].files[req[r].i].path IN
       IF checkModelAvailability(backend, GEMMA_MODEL)
       THEN /\ Put(r, [SetItem(req[r], "avail", "yes") EXCEPT !.pc = "optimize"])
            /\ fs' = fs
       ELSE /\ Put(r, Rejected(r, SetItem(req[r], "avail", "no"),
                               catchMessage(MkError(ModelNotFoundMsg))))
            /\ fs' = fs \cup {OptimizedPathOf(imagePath)}
    /\ UNCHANGED <<backend, nextId, load, sd, ui, faults>>

checkModelStep(r) ==
    /\ req[r].pc = "model"
    /\ IF checkModelAvailability(backend, GEMMA_MODEL)
       THEN Put(r, [SetItem(req[r], "avail", "yes") EXCEPT !.pc = "optimize"])
       ELSE Put(r, Rejected(r, SetItem(req[r], "avail", "no"),
                            catchMessage(MkError(ModelNotFoundMsg))))
    /\ UNCHANGED <<fs, backend, nextId, load, sd, ui, faults>>

\* sharp(...).toFile(optimizedPath): writes the derived copy, or fails (a
\* corrupt or missing input, an encoder error) and the original is used.
optimizeStep(r) ==
    /\ req[r].pc = "optimize"
    /\ LET imagePath == req[r].files[req[r].i].path
           optimizedPath == OptimizedPathOf(imagePath) IN
       \E ok \in BOOLEAN :
         /\ ok => imagePath \in fs
         /\ fs' = IF ok THEN fs \cup {optimizedPath} ELSE fs
         /\ Put(r, [SetItem(req[r], "optimized", IF ok THEN "ok" ELSE "failed")
                      EXCEPT !.pc = "read",
                             !.finalImagePath = optimizeImage(ok, imagePath, optimizedPath)])
    /\ UNCHANGED <<backend, nextId, load, sd, ui, faults>>

\* The request record once the POST to /api/generate is issued with the
\* payload {model, prompt, images: [imageBase64]}.
Posted(q) ==
    [q EXCEPT !.imageBase64 = Base64(q.finalImagePath),
              !.issued = @ + 1,
              !.item = [@ EXCEPT !.gen = @ + 1, !.sent = Base64(q.finalImagePath),
                                 !.prompt = q.prompt, !.post = "pending"]]

\* The POST issued and not awaited: the promise is taken for the response,
\* which has no data, and the call is left with the POST pending.
readStep_NotAwaited(r) ==
    /\ req[r].pc = "read"
    /\ LET q == req[r]
           ReadError(e) == MkError(<<"Failed to read image file: ">> \o e) IN
       \/ /\ q.finalImagePath \in fs
          /\ Put(r, Rejected(r, Posted(q), catchMessage(MkError(InvalidResponseMsg))))
          /\ faults' = faults
       \/ /\ q.finalImagePath \notin fs
          /\ faults' = faults
          /\ Put(r, Rejected(r, q, catchMessage(ReadError(ENOENTMsg))))
    /\ UNCHANGED <<fs, backend, nextId, load, sd, ui>>

\* convertImageToBase64(finalImagePath), then the POST to /api/generate is
\* issued with the encoded bytes and awaited.
readStep(r) ==
    /\ req[r].pc = "read"
    /\ LET q == req[r]
           ReadError(e) == MkError(<<"Failed to read image file: ">> \o e) IN
       \/ /\ q.finalImagePath \in fs
          /\ Put(r, [Posted(q) EXCEPT !.pc = "inflight"])
          /\ faults' = faults
       \/ /\ q.finalImagePath \in fs
          /\ faults < MaxFsFaults
          /\ faults' = faults + 1
          /\ Put(r, Rejected(r, q, catchMessage(ReadError(EIOMsg))))
       \/ /\ q.finalImagePath \notin fs
          /\ faults' = faults
          /\ Put(r, Rejected(r, q, catchMessage(ReadError(ENOENTMsg))))
    /\ UNCHANGED <<fs, backend, nextId, load, sd, ui>>

\* What the awaited POST can end with, by the backend's state at that time.
generateErrors(b) ==
    IF b.up THEN {AxiosTimeout, AxiosBadStatus} ELSE {AxiosRefused, AxiosSocketTimeout}

\* The reply returned as the summary without a look at it.
Validated_Unchecked(r, q) == Resolved(r, q, q.reply.response)

\* The statements after the optimized copy's cleanup: the reply is returned
\* as the summary or refused as invalid.
Validated(r, q) ==
    IF validReply(q.reply)
    THEN Resolved(r, q, q.reply.response)
    ELSE {Rejected(r, q, catchMessage(MkError(InvalidResponseMsg)))}

\* The request record once the pending POST has ended, with a reply or with
\* the error of the given code.
PostEnded(q, how) == [q EXCEPT !.ended = @ + 1, !.item.post = how]

\* A 2xx reply as the history has it: without a body, or with a missing or
\* empty response field, it is malformed.
replyKind(reply) ==
    IF reply.data /\ reply.response \notin {Undefined, ""} THEN "replied" ELSE "malformed"

\* The POST ends, and an error makes the call read the image and post again.
generateReply_Retry(r) ==
    /\ req[r].pc = "inflight"
    /\ LET q == req[r] IN
       \/ \E e \in generateErrors(backend) : Put(r, [PostEnded(q, e.code) EXCEPT !.pc = "read"])
       \/ /\ backend.up
          /\ \E reply \in Replies :
               IF q.finalImagePath # q.files[q.i].path
               THEN Put(r, [PostEnded(q, replyKind(reply)) EXCEPT !.pc = "rmopt", !.reply = reply])
               ELSE \E q2 \in Validated(r, [PostEnded(q, replyKind(reply)) EXCEPT !.reply = reply]) :
                      Put(r, q2)
    /\ UNCHANGED <<fs, backend, nextId, load, sd, ui, faults>>

\* The POST ends. An error goes straight to the catch block; after a reply
\* the derived copy, if one was made, is unlinked before the reply is looked
\* at.
generateReply(r) ==
    /\ req[r].pc = "inflight"
    /\ LET q == req[r] IN
       \/ \E e \in generateErrors(backend) :
            Put(r, Rejected(r, PostEnded(q, e.code), catchMessage(e)))
       \/ /\ backend.up
          /\ \E reply \in Replies :
               IF q.finalImagePath # q.files[q.i].path
               THEN Put(r, [PostEnded(q, replyKind(reply)) EXCEPT !.pc = "rmopt", !.reply = reply])
               ELSE \E q2 \in Validated(r, [PostEnded(q, replyKind(reply)) EXCEPT !.reply = reply]) :
                      Put(r, q2)
    /\ UNCHANGED <<fs, backend, nextId, load, sd, ui, faults>>

\* fs.unlink(finalImagePath) of the derived copy; a failure is only logged.
unlinkOptimized(r) ==
    /\ req[r].pc = "rmopt"
    /\ \E after \in UnlinkOutcomes(req[r].finalImagePath) :
         /\ fs' = after
         /\ faults' = FaultsAfterUnlink(req[r].finalImagePath, after)
         /\ LET q == [req[r] EXCEPT !.delFail = @ \/ (after = fs /\ req[r].finalImagePath \in fs)] IN
            \E q2 \in Validated(r, q) :
              Put(r, [q2 EXCEPT !.atResp = IF q2.route = "single"
                                            THEN TempFiles(r) \cap after ELSE @])
    /\ UNCHANGED <<backend, nextId, load, sd, ui>>

\* ------------------------------------------- finally and responses
\* The summary with every outcome counted as successful (the filter on
\* success left out).
BatchSummary_NoFilter(results, uploadedFiles) ==
    [total |-> Len(uploadedFiles), successful |-> Len(results),
     failed |-> Len(uploadedFiles) - Len(results)]

\* summary of the batch response: the outcomes tagged success are counted.
BatchSummary(results, uploadedFiles) ==
    LET successCount == Cardinality({k \in 1..Len(results) : results[k].success}) IN
    [total |-> Len(uploadedFiles), successful |-> successCount,
     failed |-> Len(uploadedFiles) - successCount]

BatchSuccess(q) ==
    [status |-> 200,
     body |-> [success |-> TRUE, results |-> q.results,
               summary |-> BatchSummary(q.results, q.files)]]

\* The batch loop leaving at the first failed item instead of going on.
nextItem_StopsAtFailure(q) ==
    IF q.i < Len(q.files) /\ q.results[Len(q.results)].success
    THEN [q EXCEPT !.pc = "health", !.i = @ + 1, !.item = FreshItem]
    ELSE [q EXCEPT !.pc = "respond"]

\* Where the batch loop goes after an item's finally block: the next item, or
\* the response when the files are through.
nextItem(q) ==
    IF q.i < Len(q.files)
    THEN [q EXCEPT !.pc = "health", !.i = @ + 1, !.item = FreshItem]
    ELSE [q EXCEPT !.pc = "respond"]

\* After the loop, and with no await in between: res.json of the batch
\* response, which is sent, or throws into the handler's outer catch block.
\* `after` is the upload directory the last cleanupFile left.
batchRespond(r, q, after) ==
    {[q EXCEPT !.pc = "done", !.resp = BatchSuccess(q), !.nresp = @ + 1,
               !.atResp = TempFiles(r) \cap after]}
    \cup (IF \E k \in 1..Len(q.results) : q.results[k].success
          THEN {[q EXCEPT !.pc = "outerCleanup", !.j = 1, !.sendThrew = TRUE]}
          ELSE {})

\* The batch loop without the cleanupFile of its finally block: the staged
\* files are left to the end of the batch.
finallyStep_Deferred(r) ==
    /\ req[r].pc = "finally"
    /\ LET q == req[r] IN
       \E after \in IF q.route = "single" THEN UnlinkOutcomes(q.files[q.i].path) ELSE {fs} :
         /\ fs' = after
         /\ faults' = IF q.route = "single" THEN FaultsAfterUnlink(q.files[q.i].path, after)
                      ELSE faults
         /\ LET q2 == IF q.route = "single"
                      THEN [q EXCEPT !.rel[q.i] = @ + 1,
                                     !.delFail = @ \/ (after = fs /\ q.files[q.i].path \in fs)]
                      ELSE q
                q3 == nextItem(q2) IN
            IF q.route = "single" THEN Put(r, [q2 EXCEPT !.pc = "done"])
            ELSE IF q3.pc = "respond" THEN \E q4 \in batchRespond(r, q3, after) : Put(r, q4)
            ELSE Put(r, q3)
    /\ UNCHANGED <<backend, nextId, load, sd, ui>>

\* cleanupFile without its try/catch: the error of a failed unlink leaves the
\* finally block of the batch loop, and the handler answers 500 with it.
finallyStep_Throws(r) ==
    /\ req[r].pc = "finally"
    /\ LET q == req[r] IN
       \E after \in UnlinkOutcomes(q.files[q.i].path) :
         /\ fs' = after
         /\ faults' = FaultsAfterUnlink(q.files[q.i].path, after)
         /\ LET failed == after = fs /\ q.files[q.i].path \in fs
                q2 == [q EXCEPT !.rel[q.i] = @ + 1, !.delFail = @ \/ failed]
                q3 == nextItem(q2) IN
            IF q.route = "single" THEN Put(r, [q2 EXCEPT !.pc = "done"])
            ELSE IF failed
            THEN Put(r, [q2 EXCEPT !.pc = "done", !.nresp = @ + 1,
                                   !.resp = Resp500(<<"EPERM: operation not permitted, unlink">>),
                                   !.atResp = TempFiles(r) \cap after])
            ELSE IF q3.pc = "respond" THEN \E q4 \in batchRespond(r, q3, after) : Put(r, q4)
            ELSE Put(r, q3)
    /\ UNCHANGED <<backend, nextId, load, sd, ui>>

\* The finally block: cleanupFile on the item's staged path (a failed unlink
\* is logged). /analyze-image is done with it, the batch loop goes on to its
\* next item or to the response.
finallyStep(r) ==
    /\ req[r].pc = "finally"
    /\ LET q == req[r] IN
       \E after \in UnlinkOutcomes(q.files[q.i].path) :
         /\ fs' = after
         /\ faults' = FaultsAfterUnlink(q.files[q.i].path, after)
         /\ LET q2 == [q EXCEPT !.rel[q.i] = @ + 1,
                                !.delFail = @ \/ (after = fs /\ q.files[q.i].path \in fs)]
                q3 == nextItem(q2) IN
            IF q.route = "single" THEN Put(r, [q2 EXCEPT !.pc = "done"])
            ELSE IF q3.pc = "respond" THEN \E q4 \in batchRespond(r, q3, after) : Put(r, q4)
            ELSE Put(r, q3)
    /\ UNCHANGED <<backend, nextId, load, sd, ui>>

\* The outer catch block: cleanupFile on every uploaded file, one await
\* each, then the 500 response.
outerCleanup(r) ==
    /\ req[r].pc = "outerCleanup"
    /\ LET q == req[r] IN
       \E after \in UnlinkOutcomes(q.files[q.j].path) :
         /\ fs' = after
         /\ faults' = FaultsAfterUnlink(q.files[q.j].path, after)
         /\ LET q2 == [q EXCEPT !.rel[q.j] = @ + 1,
                                !.delFail = @ \/ (after = fs /\ q.files[q.j].path \in fs)] IN
            IF q.j < Len(q.files)
            THEN Put(r, [q2 EXCEPT !.j = @ + 1])
            ELSE Put(r, [q2 EXCEPT !.pc = "done", !.resp = Resp500(SendErrorMsg),
                                   !.nresp = @ + 1,
                                   !.atResp = TempFiles(r) \cap after])
    /\ UNCHANGED <<backend, nextId, load, sd, ui>>

\* ------------------------------------------------ /health, /status
\* The model listed by name: m.includes(GEMMA_MODEL.split(':')[0]).
modelListed(availableModels) ==
    \E m \in availableModels : includes(Chars(m), BeforeColon(Chars(GEMMA_MODEL)))

\* The body of /health that reports the backend and the model as found
\* whatever the checks returned.
healthBody_AlwaysUp(ollamaHealthy, modelAvailable) ==
    [status |-> "healthy",
     services |-> [api |-> TRUE, ollama |-> TRUE, model |-> GEMMA_MODEL],
     config |-> [maxFileSize |-> <<"16", "MB">>, allowedExtensions |-> ALLOWED_EXTENSIONS,
                 model |-> GEMMA_MODEL]]

\* The body of GET /health.
healthBody(ollamaHealthy, modelAvailable) ==
    [status |-> "healthy",
     services |-> [api |-> TRUE, ollama |-> ollamaHealthy,
                   model |-> IF modelAvailable THEN GEMMA_MODEL ELSE "not_available"],
     config |-> [maxFileSize |-> <<"16", "MB">>, allowedExtensions |-> ALLOWED_EXTENSIONS,
                 model |-> GEMMA_MODEL]]

\* The body of GET /status.
statusBody(ollamaHealthy, availableModels) ==
    [ollama |-> [running |-> ollamaHealthy, availableModels |-> availableModels],
     currentModel |-> GEMMA_MODEL,
     modelAvailable |-> modelListed(availableModels)]

\* await checkOllamaHealth() of /health and /status. /status goes on to the
\* model list only when the backend answered, and answers without it
\* otherwise.
getLiveStep(r) ==
    /\ req[r].pc = "getLive"
    /\ LET q == [req[r] EXCEPT !.ollamaHealthy = checkOllamaHealth(backend),
                               !.upSeen = @ \/ backend.up] IN
       IF q.route = "health" THEN Put(r, [q EXCEPT !.pc = "getModel"])
       ELSE IF q.ollamaHealthy THEN Put(r, [q EXCEPT !.pc = "getTags"])
       ELSE Put(r, [q EXCEPT !.pc = "done", !.nresp = @ + 1,
                             !.resp = [status |-> 200, body |-> statusBody(FALSE, {})]])
    /\ UNCHANGED <<fs, backend, nextId, load, sd, ui, faults>>

\* await checkModelAvailability(GEMMA_MODEL) of /health, then its res.json.
getModelStep(r) ==
    /\ req[r].pc = "getModel"
    /\ LET q == [req[r] EXCEPT !.modelAvailable = checkModelAvailability(backend, GEMMA_MODEL),
                               !.upSeen = @ \/ backend.up] IN
       Put(r, [q EXCEPT !.pc = "done", !.nresp = @ + 1,
                        !.resp = [status |-> 200,
                                  body |-> healthBody(q.ollamaHealthy, q.modelAvailable)]])
    /\ UNCHANGED <<fs, backend, nextId, load, sd, ui, faults>>

\* await axios.get(/api/tags) of /status (a failure is logged and leaves the
\* list empty), then its res.json.
getTagsStep(r) ==
    /\ req[r].pc = "getTags"
    /\ LET q == [req[r] EXCEPT !.upSeen = @ \/ backend.up]
           availableModels == IF backend.up THEN backend.models ELSE {} IN
       Put(r, [q EXCEPT !.pc = "done", !.nresp = @ + 1,
                        !.resp = [status |-> 200,
                                  body |-> statusBody(q.ollamaHealthy, availableModels)]])
    /\ UNCHANGED <<fs, backend, nextId, load, sd, ui, faults>>

\* The request is over; its slot takes the next one.
Retire(r) ==
    /\ req[r].pc = "done"
    /\ Put(r, IdleReq)
    /\ UNCHANGED <<fs, backend, nextId, load, sd, ui, faults>>

\* ------------------------------------------------- specification
Next ==
    \/ BackendChange
    \/ \E r \in Reqs :
         \/ Receive(r)
         \/ getLiveStep(r)
         \/ getModelStep(r)
         \/ getTagsStep(r)
         \/ PartArrives(r)
         \/ StreamEnds(r)
         \/ EndOfParts(r)
         \/ UploadAbort(r)
         \/ errorMiddleware(r)
         \/ HandlerEntry(r)
         \/ checkHealthStep(r)
         \/ checkModelStep(r)
         \/ optimizeStep(r)
         \/ readStep(r)
         \/ generateReply(r)
         \/ unlinkOptimized(r)
         \/ finallyStep(r)
         \/ outerCleanup(r)
         \/ Retire(r)

Spec == Init /\ [][Next]_vars

\* ------------------------------------------- concurrent uploads
\* The clients keep as many uploads in flight as the server has slots, and
\* the backend stays as it is found.
InitConc ==
    /\ fs = {}
    /\ backend \in Backends
    /\ nextId = 1
    /\ load = MaxReqs
    /\ faults = 0
    /\ req = [r \in Reqs |-> IdleReq]
    /\ sd = NotSignalled
    /\ ui = UiInit

\* A client sends POST /analyze-image or POST /batch-analyze.
ReceiveUpload(r) == Receive(r) /\ req'[r].route \in Routes

\* The steps of POST /analyze-image and POST /batch-analyze requests.
NextConc ==
    \E r \in Reqs :
        \/ ReceiveUpload(r)
        \/ PartArrives(r)
        \/ StreamEnds(r)
        \/ EndOfParts(r)
        \/ UploadAbort(r)
        \/ errorMiddleware(r)
        \/ HandlerEntry(r)
        \/ checkHealthStep(r)
        \/ checkModelStep(r)
        \/ optimizeStep(r)
        \/ readStep(r)
        \/ generateReply(r)
        \/ unlinkOptimized(r)
        \/ finallyStep(r)
        \/ outerCleanup(r)
        \/ Retire(r)

SpecConc == InitConc /\ [][NextConc]_vars

\* ------------------------------------------------- SIGINT handler
\* The process receives SIGINT: the handler starts and awaits fs.readdir.
SigInt ==
    /\ sd.pc = "running"
    /\ sd' = [sd EXCEPT !.pc = "readdir"]
    /\ UNCHANGED <<fs, backend, nextId, load, faults, req, ui>>

\* process.exit(0): every request in work ends where it is.
Exited == [r \in Reqs |-> [req[r] EXCEPT !.pc = "killed"]]

\* fs.readdir(UPLOAD_DIR) resolves with the names in the directory at that
\* moment; with none the loop is skipped and the process exits.
readdirStep ==
    /\ sd.pc = "readdir"
    /\ IF fs = {}
       THEN sd' = [pc |-> "exited", files |-> {}] /\ req' = Exited
       ELSE sd' = [pc |-> "cleaning", files |-> fs] /\ req' = req
    /\ UNCHANGED <<fs, backend, nextId, load, faults, ui>>

\* One turn of the loop: await cleanupFile on a listed name (unlink, a failure
\* only logged); after the last one, process.exit(0).
shutdownCleanup ==
    /\ sd.pc = "cleaning"
    /\ \E p \in sd.files : \E after \in UnlinkOutcomes(p) :
         /\ fs' = after
         /\ faults' = FaultsAfterUnlink(p, after)
         /\ IF sd.files = {p}
            THEN sd' = [pc |-> "exited", files |-> {}] /\ req' = Exited
            ELSE sd' = [pc |-> "cleaning", files |-> sd.files \ {p}] /\ req' = req
    /\ UNCHANGED <<backend, nextId, load, ui>>

\* The server with the signal handler installed.
NextShutdown == Next \/ SigInt \/ readdirStep \/ shutdownCleanup

SpecShutdown == Init /\ [][NextShutdown]_vars

\* ------------------------------------------------ ImageAnalyzer (UI)
\* What fetch(/analyze-image) and response.json() give the component: a
\* success body, an error body, a 200 body without success.
UiResponses ==
    [ok : {TRUE}, success : {TRUE}, filename : {"a.png", "b.JPG"},
     summary : {"A handwritten note"}, error : {Undefined}]
      \cup [ok : {FALSE}, success : {FALSE}, filename : {Undefined},
            summary : {Undefined}, error : {Undefined, "No image file provided"}]
      \cup [ok : {TRUE}, success : {FALSE}, filename : {Undefined},
            summary : {Undefined}, error : {Undefined}]

Min(a, b) == IF a < b THEN a ELSE b

\* Array.prototype.slice(0, n).
slice(a, n) == SubSeq(a, 1, Min(n, Len(a)))

\* The history entry of a success (its prompt, timestamp and processing time
\* are display-only fields).
HistoryEntry(now, data) == [id |-> now, filename |-> data.filename, summary |-> data.summary]

\* An updater that keeps every earlier entry.
addToHistory_KeepsAll(prev, entry) == <<entry>> \o prev

\* The updater passed to setHistory: the new entry, then prev.slice(0, 4).
addToHistory(prev, entry) == <<entry>> \o slice(prev, 4)

\* handleFileSelect with a file of an allowed type and size.
handleFileSelect ==
    /\ \E f \in {"a.png", "b.JPG"} :
         ui' = [ui EXCEPT !.selectedFile = f, !.error = Null, !.result = Null]
    /\ UNCHANGED <<fs, backend, nextId, load, faults, req, sd>>

\* checkApiHealth: GET /health answered ok, or not.
checkApiHealth ==
    /\ \E status \in {"online", "offline"} :
         ui' = [ui EXCEPT !.apiStatus = status]
    /\ UNCHANGED <<fs, backend, nextId, load, faults, req, sd>>

\* The Analyze button (disabled without a file, while loading, and offline):
\* analyzeImage up to its fetch. The clock moves on: the Date.now() read when
\* the response is in is later than that of every earlier analysis.
analyzeImage ==
    /\ ui.selectedFile # Null /\ ~ui.loading /\ ui.apiStatus # "offline"
    /\ ui.now < MaxAnalyses
    /\ ui' = [ui EXCEPT !.loading = TRUE, !.error = Null, !.now = @ + 1]
    /\ UNCHANGED <<fs, backend, nextId, load, faults, req, sd>>

\* The fetch and response.json() resolve: a success is shown and put in
\* front of the history, anything else is shown as an error.
analyzeResponse ==
    /\ ui.loading
    /\ \E data \in UiResponses :
         IF data.ok /\ data.success
         THEN ui' = [ui EXCEPT !.result = data.summary,
                               !.history = addToHistory(@, HistoryEntry(ui.now, data)),
                               !.apiStatus = "online",
                               !.loading = FALSE]
         ELSE ui' = [ui EXCEPT !.error = IF Truthy(data.error) THEN data.error
                                         ELSE "Analysis failed",
                               !.loading = FALSE]
    /\ UNCHANGED <<fs, backend, nextId, load, faults, req, sd>>

FailedToConnect ==
    "Failed to connect to the API. Make sure the Node.js server is running on port 5000 and Ollama is installed with Gemma3 model."

\* The fetch or response.json() rejects.
analyzeThrows ==
    /\ ui.loading
    /\ ui' = [ui EXCEPT !.error = FailedToConnect, !.apiStatus = "offline",
                        !.loading = FALSE]
    /\ UNCHANGED <<fs, backend, nextId, load, faults, req, sd>>

\* clearHistory, from the button the panel shows when it has entries.
clearHistory ==
    /\ ui.history # <<>>
    /\ ui' = [ui EXCEPT !.history = <<>>]
    /\ UNCHANGED <<fs, backend, nextId, load, faults, req, sd>>

NextUI ==
    \/ handleFileSelect
    \/ checkApiHealth
    \/ analyzeImage
    \/ analyzeResponse
    \/ analyzeThrows
    \/ clearHistory

SpecUI == Init /\ [][NextUI]_vars



\* ================================================================
\* Properties
\* ================================================================
\* The handler of request r ran with at least one staged file.
Handled(r) == Len(req[r].rel) > 0

\* The item in work of request r is through its finally block.
ItemFinished(r) ==
    \/ req[r].route = "single" /\ req[r].pc = "done" /\ Handled(r)
    \/ req[r].route = "batch" /\ req[r].pc \in {"outerCleanup", "done"} /\ Handled(r)

\* The temp files of the item in work: its staged path and the derived copy.
ItemFiles(r) ==
    LET imagePath == req[r].files[req[r].i].path IN
    {imagePath, OptimizedPathOf(imagePath)}

\* The kind, in the error taxonomy of the design, that a message of
\* callGemma3Vision tells the caller.
ErrorKind(message) ==
    IF message = CannotConnectMsg \/ message = <<"Gemma3 analysis failed: ">> \o NotRunningMsg
      THEN "ServiceUnavailableError"
    ELSE IF message = <<"Gemma3 analysis failed: ">> \o ModelNotFoundMsg
      THEN "ModelNotFoundError"
    ELSE IF message = TimedOutMsg THEN "TimeoutError"
    ELSE "ProcessingError"

\* The error the caller of the item in work is told: the body of the 500
\* response of /analyze-image, the last outcome of the batch.
ToldError(r) ==
    IF req[r].route = "single" THEN req[r].resp.body.error
    ELSE req[r].results[Len(req[r].results)].error

\* C1: for every uploaded file that reaches the /analyze-image or
\* /batch-analyze handler, cleanupFile is invoked on its staged path exactly
\* once during the request, whichever stage failed or succeeded: never twice,
\* and once by the time the request is over.
C1_ReleasedExactlyOnce ==
    \A r \in Reqs : \A k \in 1..Len(req[r].rel) :
      /\ req[r].rel[k] <= 1
      /\ req[r].pc = "done" => req[r].rel[k] = 1

\* C2: when the analysis of an artifact has finished, no temp file of it is
\* left in storage, neither the staged upload nor the derived copy; stated
\* for the items whose generate call was issued (preprocessing and the file
\* read went through) and for requests in which no unlink of an existing
\* file failed.
C2_NoTempFileRemains ==
    \A r \in Reqs :
      (ItemFinished(r) /\ req[r].item.gen >= 1 /\ ~req[r].delFail)
        => ItemFiles(r) \cap fs = {}

\* C3: every artifact created during an operation is released before the
\* operation's response is sent: no response of a handler goes out while a
\* temp file of its request exists.
C3_ReleasedBeforeResponse ==
    \A r \in Reqs : (Handled(r) /\ req[r].resp.status # 0) => req[r].atResp = {}

\* C4: the batch response for N accepted files holds exactly N outcomes, the
\* k-th with the filename of the k-th file, and summary.total = N,
\* summary.successful + summary.failed = total, successful being the number of
\* outcomes tagged success.
C4_BatchOutcomeCounts ==
    \A r \in Reqs :
      (req[r].route = "batch" /\ req[r].resp.status = 200) =>
        LET body == req[r].resp.body
            N == Len(req[r].files) IN
        /\ N >= 1
        /\ Len(body.results) = N
        /\ \A k \in 1..N : body.results[k].filename = req[r].files[k].originalname
        /\ body.summary.total = N
        /\ body.summary.successful + body.summary.failed = body.summary.total
        /\ body.summary.successful = Cardinality({k \in 1..N : body.results[k].success})

C4_Witness ==
    \E r \in Reqs :
      /\ req[r].route = "batch" /\ req[r].resp.status = 200
      /\ Len(req[r].files) = 2
      /\ req[r].files[1].originalname # req[r].files[2].originalname
      /\ req[r].resp.body.results[1].success
      /\ ~req[r].resp.body.results[2].success

\* C5: in a batch the failure of an item does not abort the batch: the item's
\* rejection is recorded as an outcome with success false and the error's
\* message, every item before the one in work has its outcome, and the loop
\* is left only with one outcome per file.
C5_FailureIsolation ==
    \A r \in Reqs : req[r].route = "batch" =>
      LET q == req[r] IN
      /\ q.pc \in {"health", "model", "optimize", "read", "inflight", "rmopt"}
           => Len(q.results) = q.i - 1
      /\ q.pc = "finally" => Len(q.results) = q.i
      /\ (q.pc = "finally" /\ q.item.outcome = "rejected")
           => q.results[q.i] = [success |-> FALSE,
                                filename |-> q.files[q.i].originalname,
                                error |-> q.item.message]
      /\ (q.pc \in {"outerCleanup", "done"} /\ Handled(r))
           => Len(q.results) = Len(q.files)

C5_Witness ==
    \E r \in Reqs :
      /\ req[r].route = "batch" /\ req[r].pc = "done"
      /\ Len(req[r].results) = 2
      /\ ~req[r].results[1].success
      /\ req[r].results[2].success

\* C6: if the liveness check returns false for an item, no generate call is
\* issued for it and the error the caller is told is of the
\* ServiceUnavailableError kind.
C6_LivenessShortCircuit ==
    \A r \in Reqs : req[r].item.live = "down" =>
      /\ req[r].item.gen = 0
      /\ req[r].item.outcome = "rejected"
      /\ ErrorKind(req[r].item.message) = "ServiceUnavailableError"
      /\ req[r].pc = "finally" => ToldError(r) = req[r].item.message

C6_Witness ==
    \E r \in Reqs : req[r].item.live = "down" /\ req[r].pc = "finally"

\* C7: if the backend is reachable but the model availability check returns
\* false, no generate call is issued and the error is of the
\* ModelNotFoundError kind, not the kind of a liveness failure.
C7_ModelShortCircuit ==
    \A r \in Reqs : (req[r].item.live = "up" /\ req[r].item.avail = "no") =>
      /\ req[r].item.gen = 0
      /\ req[r].item.outcome = "rejected"
      /\ ErrorKind(req[r].item.message) = "ModelNotFoundError"
      /\ req[r].pc = "finally" => ToldError(r) = req[r].item.message

C7_Witness ==
    \E r \in Reqs :
      /\ req[r].item.live = "up" /\ req[r].item.avail = "no"
      /\ backend.up /\ req[r].pc = "finally"

\* C8: a file over the size limit is answered 400 and no temp file of that
\* upload exists at any point of the request or after it.
C8_OversizeNeverStaged ==
    \A r \in Reqs : req[r].part.size > MAX_FILE_SIZE =>
      /\ req[r].partPath \notin fs
      /\ req[r].pc = "done" => req[r].resp.status = 400

C10_PreprocessFallback ==
    \A r \in Reqs : req[r].item.optimized = "failed" =>
      LET imagePath == req[r].files[req[r].i].path IN
      /\ req[r].pc \in {"read", "inflight", "rmopt"} => req[r].finalImagePath = imagePath
      /\ req[r].item.gen >= 1 => req[r].item.sent = Base64(imagePath)
      /\ req[r].item.outcome = "resolved" => req[r].item.gen = 1

C10_Witness ==
    \E r \in Reqs :
      /\ req[r].item.optimized = "failed"
      /\ req[r].item.outcome = "resolved"
      /\ req[r].item.sent = Base64(req[r].files[req[r].i].path)

\* The codes and the errors axios.post can reject with.
PostErrors == UNION { generateErrors(b) : b \in Backends }
PostErrorCodes == { e.code : e \in PostErrors }

\* The messages callGemma3Vision can reject with.
CallMessages ==
    { catchMessage(e) : e \in PostErrors \cup
        { MkError(NotRunningMsg), MkError(ModelNotFoundMsg), MkError(InvalidResponseMsg),
          MkError(<<"Failed to read image file: ">> \o ENOENTMsg),
          MkError(<<"Failed to read image file: ">> \o EIOMsg) } }

\* The stages of callGemma3Vision for the item in work.
CallStages == {"health", "model", "optimize", "read", "inflight", "rmopt"}

\* C11: an item whose generate call runs into the 120 s timeout of axios.post
\* is rejected with the 'Analysis timed out' message, which is of the
\* TimeoutError kind.
C11_TimeoutKind ==
    \A r \in Reqs : req[r].item.post = AxiosTimeout.code =>
      /\ req[r].item.outcome = "rejected"
      /\ req[r].item.message = TimedOutMsg
      /\ ErrorKind(req[r].item.message) = "TimeoutError"

C13_ReleasedBeforeNextItem ==
    \A r \in Reqs :
      (req[r].route = "batch" /\ req[r].pc \in CallStages \cup {"finally"}) =>
        LET q == req[r] IN
        /\ \A k \in 1..(q.i - 1) :
             /\ q.rel[k] >= 1
             /\ ~q.delFail => q.files[k].path \notin fs
        /\ \A k \in q.i..Len(q.files) : q.rel[k] = 0

C13_Witness ==
    \E r \in Reqs :
      /\ req[r].route = "batch" /\ req[r].i = 2 /\ req[r].pc = "health"
      /\ req[r].rel = <<1, 0>>
      /\ req[r].files[1].path \notin fs

\* C14: while a batch is processed, the temp files of it that exist (staged
\* uploads and derived copies) belong to at most one of its items.
C14_OneItemOfTempStorage ==
    \A r \in Reqs : (req[r].route = "batch" /\ Handled(r)) =>
      Cardinality({ k \in 1..Len(req[r].files) :
                      {req[r].files[k].path, OptimizedPathOf(req[r].files[k].path)} \cap fs # {} })
        <= 1

\* C15: no item has more than one generate call issued for it, and a call
\* that rejected (a timeout, a refused connection, an error status) ends the
\* item: callGemma3Vision rejects with the message for that error, which is
\* what the caller is told.
C15_NoRetry ==
    \A r \in Reqs :
      LET q == req[r] IN
      /\ q.item.gen <= 1
      /\ q.issued <= Len(q.files)
      /\ q.item.post \in PostErrorCodes =>
           /\ q.item.outcome = "rejected"
           /\ \E e \in PostErrors : e.code = q.item.post /\ q.item.message = catchMessage(e)
           /\ q.pc = "finally" => ToldError(r) = q.item.message

C15_Witness ==
    \E r \in Reqs :
      /\ req[r].item.post = AxiosRefused.code /\ req[r].item.gen = 1
      /\ req[r].pc = "finally" /\ ToldError(r) = CannotConnectMsg

\* C16: every item makes its own liveness and availability checks against the
\* backend as it is at that moment: a generate call is issued only for an
\* item whose own checks both passed, the liveness check of an item ends as
\* the backend is reachable or not when it is made, the availability check as
\* the model is listed or not, and a failed check ends the item without a
\* generate call.
C16_ChecksNeverCached ==
    /\ [](\A r \in Reqs : req[r].item.gen >= 1
                            => (req[r].item.live = "up" /\ req[r].item.avail = "yes"))
    /\ [][\A r \in Reqs :
            /\ (req[r].pc = "health" /\ req'[r].pc # "health") =>
                 IF backend.up
                 THEN req'[r].pc = "model" /\ req'[r].item.live = "up"
                 ELSE /\ req'[r].item.live = "down" /\ req'[r].item.gen = 0
                      /\ req'[r].item.outcome = "rejected" /\ req'[r].pc = "finally"
            /\ (req[r].pc = "model" /\ req'[r].pc # "model") =>
                 IF backend.up /\ GEMMA_MODEL \in backend.models
                 THEN req'[r].pc = "optimize" /\ req'[r].item.avail = "yes"
                 ELSE /\ req'[r].item.avail = "no" /\ req'[r].item.gen = 0
                      /\ req'[r].item.outcome = "rejected" /\ req'[r].pc = "finally"]_vars

C16_Witness ==
    \E r \in Reqs :
      /\ req[r].route = "batch" /\ req[r].i = 2
      /\ req[r].results[1].success
      /\ req[r].item.live = "down" /\ req[r].item.gen = 0 /\ req[r].pc = "finally"

\* C17: a request in which an unlink of an existing file failed answers as
\* its outcomes prescribe: /analyze-image with 200 after a resolved call and
\* with 500 and the call's message after a rejected one, /batch-analyze with
\* 200 and its outcomes (500 only where res.json threw), and no outcome or
\* response carries anything but a message of callGemma3Vision.
C17_DeletionFailureSwallowed ==
    \A r \in Reqs : (Handled(r) /\ req[r].delFail) =>
      LET q == req[r] IN
      /\ \A k \in 1..Len(q.results) :
           ~q.results[k].success => q.results[k].error \in CallMessages
      /\ q.item.outcome = "rejected" => q.item.message \in CallMessages
      /\ (q.resp.status # 0 /\ q.sendThrew) => q.resp = Resp500(SendErrorMsg)
      /\ (q.resp.status # 0 /\ ~q.sendThrew /\ q.route = "batch") => q.resp = BatchSuccess(q)
      /\ (q.resp.status # 0 /\ ~q.sendThrew /\ q.route = "single") =>
           IF q.item.outcome = "resolved"
           THEN q.resp.status = 200 /\ q.resp.body.success
           ELSE q.resp = Resp500(q.item.message)
      /\ q.pc = "done" => q.resp.status # 0

C17_Witness ==
    \E r \in Reqs :
      /\ req[r].route = "batch" /\ req[r].pc = "done" /\ req[r].delFail
      /\ req[r].files[1].path \in fs
      /\ req[r].resp.status = 200 /\ req[r].resp.body.results[1].success

\* C18: every outcome of the batch path has exactly one of summary and error:
\* an outcome tagged success has a non-empty summary and no error, any other
\* has a non-empty error message and no summary.
C18_ExactlyOneOfSummaryError ==
    \A r \in Reqs : \A k \in 1..Len(req[r].results) :
      LET o == req[r].results[k] IN
      IF o.success
      THEN "summary" \in DOMAIN o /\ "error" \notin DOMAIN o /\ Truthy(o.summary)
      ELSE "error" \in DOMAIN o /\ "summary" \notin DOMAIN o /\ o.error # <<>>

C18_Witness ==
    \E r \in Reqs :
      /\ req[r].route = "batch" /\ req[r].pc = "finally" /\ req[r].i = 2
      /\ req[r].results[1].success /\ ~req[r].results[2].success

\* C19: an /analyze-image request with a staged file has sent no response
\* while callGemma3Vision runs and exactly one once it has ended: 200 with
\* success and the summary after a resolved call, 500 with the message of the
\* error otherwise.
C19_SingleAlwaysAnswered ==
    \A r \in Reqs : (req[r].route = "single" /\ Handled(r)) =>
      LET q == req[r] IN
      /\ q.pc \in CallStages => q.nresp = 0
      /\ q.pc \in {"finally", "done"} =>
           /\ q.nresp = 1
           /\ \/ /\ q.resp.status = 200 /\ q.item.outcome = "resolved"
                 /\ q.resp.body.success /\ Truthy(q.resp.body.summary)
              \/ /\ q.resp.status = 500 /\ q.item.outcome = "rejected"
                 /\ q.resp.body.error = q.item.message
              \/ /\ q.resp.status = 500 /\ q.sendThrew
                 /\ q.resp.body.error = SendErrorMsg

C19_Witness ==
    \E r \in Reqs :
      /\ req[r].route = "single" /\ req[r].pc = "done"
      /\ req[r].item.optimized = "failed" /\ req[r].item.gen = 0
      /\ req[r].resp.status = 500 /\ req[r].nresp = 1

\* String.prototype.trim on the prompts the inputs use.
trim(s) == IF s = " " THEN "" ELSE s

\* A prompt that is absent or blank (empty or whitespace only).
Blank(p) == p = Undefined \/ trim(p) = ""

\* C20: the prompt of the payload sent to the backend is the default prompt
\* when the request's prompt is absent or blank, and the request's prompt
\* otherwise.
C20_PromptDefaulting ==
    \A r \in Reqs : req[r].item.gen >= 1 =>
      req[r].item.prompt = IF Blank(req[r].bodyPrompt) THEN DefaultPrompt
                           ELSE req[r].bodyPrompt

\* C21: a GET /health that finds the backend down at each of its checks
\* reports it as not reachable and the model as "not_available"; a POST
\* /analyze-image whose liveness check finds the backend down issues no
\* generate call and answers 500 with the message that the server is not
\* running.
C21_BackendDownReported ==
    \A r \in Reqs :
      LET q == req[r] IN
      /\ (q.route = "health" /\ q.pc = "done" /\ ~q.upSeen) =>
           /\ q.resp.status = 200
           /\ q.resp.body.services.ollama = FALSE
           /\ q.resp.body.services.model = "not_available"
      /\ (q.route = "single" /\ q.item.live = "down") =>
           /\ q.item.gen = 0 /\ q.issued = 0
           /\ q.resp = Resp500(<<"Gemma3 analysis failed: ">> \o NotRunningMsg)
           /\ ErrorKind(q.resp.body.error) = "ServiceUnavailableError"

C21_Witness ==
    \E r \in Reqs :
      /\ req[r].route = "health" /\ req[r].pc = "done" /\ ~req[r].upSeen
      /\ req[r].resp.body.services.ollama = FALSE

\* C23: for a request whose upload was refused (an extension not allowed, a
\* file too large, a file too many) or that has no file, nothing is asked of
\* the backend and no preprocessing is attempted: no liveness or model check,
\* no generate call, no derived copy.
C23_ValidationBeforeBackend ==
    \A r \in Reqs :
      LET q == req[r] IN
      (q.route \in Routes /\ (q.uploadError # NoError \/ (q.pc = "done" /\ Len(q.files) = 0))) =>
        /\ q.item = FreshItem
        /\ q.issued = 0
        /\ q.pc \in {"abort", "error", "done"}
        /\ \A k \in 1..Len(q.files) : OptimizedPathOf(q.files[k].path) \notin fs

C23_Witness ==
    \E r \in Reqs :
      /\ req[r].route = "batch" /\ req[r].pc = "done"
      /\ req[r].uploadError = FileTypeError /\ Len(req[r].files) = 1

\* C24: an item whose generate call is answered without a text (no body, a
\* missing or empty response field) is rejected with the 'Invalid response
\* from Ollama' message, of the ProcessingError kind, is never recorded or
\* answered as a success, and by then its derived copy has been unlinked: it
\* is gone unless that unlink failed.
C24_MalformedReplyRejected ==
    \A r \in Reqs :
      LET q == req[r] IN
      (q.item.post = "malformed" /\ q.pc # "rmopt") =>
        /\ q.item.outcome = "rejected"
        /\ q.item.message = <<"Gemma3 analysis failed: ">> \o InvalidResponseMsg
        /\ ErrorKind(q.item.message) = "ProcessingError"
        /\ q.route = "single" => q.resp = Resp500(q.item.message)
        /\ q.route = "batch" => (~q.results[q.i].success /\ q.results[q.i].error = q.item.message)
        /\ ~q.delFail => OptimizedPathOf(q.files[q.i].path) \notin fs

C24_Witness ==
    \E r \in Reqs :
      /\ req[r].item.post = "malformed" /\ req[r].item.optimized = "ok"
      /\ req[r].pc = "finally" /\ ~req[r].delFail
      /\ req[r].item.outcome = "rejected"

\* C25: an item that passed both checks and whose generate call is refused
\* is rejected with the 'Cannot connect to Ollama' message, of the
\* ServiceUnavailableError kind, and the request goes on to its finally block,
\* which releases the staged file, and to its end.
C25_RefusedAfterChecks ==
    \A r \in Reqs :
      LET q == req[r] IN
      q.item.post = AxiosRefused.code =>
        /\ q.item.live = "up" /\ q.item.avail = "yes"
        /\ q.item.outcome = "rejected"
        /\ q.item.message = CannotConnectMsg
        /\ ErrorKind(q.item.message) = "ServiceUnavailableError"
        /\ q.pc \in {"finally", "outerCleanup", "done"}
        /\ q.pc = "finally" => ToldError(r) = CannotConnectMsg
        /\ q.pc = "done" => (q.rel[q.i] >= 1 /\ q.nresp = 1)

C25_Witness ==
    \E r \in Reqs :
      /\ req[r].item.post = AxiosRefused.code /\ req[r].pc = "done"
      /\ req[r].route = "single" /\ req[r].resp = Resp500(CannotConnectMsg)
      /\ req[r].files[1].path \notin fs

\* C26: in every response of GET /health and GET /status the model is
\* reported available only if the backend is reported reachable.
C26_HealthSelfConsistent ==
    \A r \in Reqs :
      LET q == req[r] IN
      /\ (q.route = "health" /\ q.pc = "done") =>
           (q.resp.body.services.model # "not_available" => q.resp.body.services.ollama)
      /\ (q.route = "status" /\ q.pc = "done") =>
           (q.resp.body.modelAvailable => q.resp.body.ollama.running)

\* C27: for an item whose liveness check or model check failed no derived
\* copy was made and the staged file was not read: preprocessing and the read
\* were not reached, and of the item's temp files at most the staged upload
\* exists.
C27_NoPreprocessingAfterFailedCheck ==
    \A r \in Reqs :
      LET q == req[r] IN
      (q.item.live = "down" \/ q.item.avail = "no") =>
        /\ q.item.optimized = "-"
        /\ q.item.gen = 0
        /\ q.pc \notin {"optimize", "read", "inflight", "rmopt"}
        /\ ItemFiles(r) \cap fs \subseteq {q.files[q.i].path}

C27_Witness ==
    \E r \in Reqs :
      /\ req[r].item.live = "up" /\ req[r].item.avail = "no"
      /\ req[r].pc = "finally"
      /\ ItemFiles(r) \cap fs = {req[r].files[req[r].i].path}

\* C22: the temp files of two requests in flight are never the same path,
\* even when their original filenames are equal, and a step that is not of
\* request q neither removes nor writes a temp file of q.
C22_Disjoint ==
    \A q, r \in Reqs : q # r => TempFiles(q) \cap TempFiles(r) = {}

C22_OthersUntouched ==
    \A q \in Reqs :
        req'[q] = req[q] =>
            /\ (TempFiles(q) \cap fs) \subseteq fs'
            /\ (TempFiles(q) \cap fs') \subseteq fs

C22_NoCollision == []C22_Disjoint /\ [][C22_OthersUntouched]_vars

\* Two requests carry a file of the same original name; one has released
\* its staged file, the other's is still on disk and in use.
C22_Witness ==
    \E q, r \in Reqs :
        /\ q # r
        /\ Len(req[q].files) > 0 /\ Len(req[r].files) > 0
        /\ req[q].files[1].originalname = req[r].files[1].originalname
        /\ req[r].pc = "done" /\ req[r].files[1].path \notin fs
        /\ req[q].pc \in {"read", "inflight"}
        /\ req[q].files[1].path \in fs

\* C28: once the SIGINT handler has run to process.exit, no temp file is
\* left in the upload directory.
C28_NoTempFileAfterExit == sd.pc = "exited" => fs = {}

\* The ids of the history, newest first: each entry is later than the next.
NewestFirst(h) == \A k \in 1..(Len(h) - 1) : h[k].id > h[k + 1].id

\* A response to analyzeImage arrived with this step; it was a success when
\* no error is shown after it.
Answered == ui.loading /\ ~ui'.loading
Succeeded == Answered /\ ui'.error = Null

\* C29: the history never holds more than 5 entries and is ordered newest
\* first; a successful analysis puts exactly one entry in front, keeps the
\* others in order and drops the oldest when there were 5; a failed analysis
\* leaves the history as it was.
C29_HistoryStep ==
    /\ Succeeded =>
          /\ Len(ui'.history) = Min(Len(ui.history) + 1, 5)
          /\ Head(ui'.history).id = ui.now
          /\ \A e \in {ui.history[k] : k \in 1..Len(ui.history)} : Head(ui'.history).id > e.id
          /\ Tail(ui'.history) = SubSeq(ui.history, 1, Len(ui'.history) - 1)
    /\ (Answered /\ ~Succeeded) => ui'.history = ui.history

C29_HistoryBounded ==
    /\ [](Len(ui.history) <= 5 /\ NewestFirst(ui.history))
    /\ [][C29_HistoryStep]_vars

\* A sixth success evicted the first entry, and a failed analysis after it
\* left the five entries in place.
C29_Witness ==
    /\ Len(ui.history) = 5
    /\ ui.history[1].id = 6 /\ ui.history[5].id = 2
    /\ ui.now = 7 /\ ~ui.loading /\ ui.error # Null

====
